---- MODULE Spec2Model ----
(***************************************************************************)
(* AdminMenu (src/src/pages/AdminMenu.tsx): the administration page of the *)
(* menu.  The page is a React component whose handlers are asynchronous:   *)
(* each one runs up to its await, the backend serves the request at some   *)
(* later time, and the rest of the handler runs when the response comes    *)
(* back.  Requests that are in flight together are served and answered in  *)
(* any order.                                                              *)
(***************************************************************************)
EXTENDS Bags, FiniteSets, Integers, Sequences, TLC

(* ------------------------------- bounds -------------------------------- *)

\* how many operations the user and the backend's other clients start in one
\* behaviour: a click on the page, leaving or reopening the page, a row
\* inserted by another client, a change event sent on the channel
MaxOps == 2

(* ------------------------------- data ---------------------------------- *)

\* a MenuItem, reduced to the fields the page shows and patches
Row1 == [id |-> "1", price |-> "$15.99", category |-> "mainDish"]
Row2 == [id |-> "2", price |-> "$14.99", category |-> "coldDishes"]

\* the sample dataset of fetchMenuItems
mockData == <<Row1, Row2>>

\* the ids of the cards
Ids == {"1", "2"}

\* the ids handleUpdateItem is called with
UpdateIds == {"1"}

\* the partial changes handleUpdateItem is called with
Updates == {[price |-> "$16.99"]}

\* a Partial<MenuItem> that changes the id field
KeyUpdates == {[id |-> "2"]}

\* the tables the backend may hold when the page is first opened
InitDBs == {<<Row2, Row1>>}

\* the rows another client of the backend may insert
ExternalRows == {Row2}

\* the answers of the backend: a table read, a table write, the session
\* check isAuthenticated() and the sign-out.  "null" is a read answering {data: null,
\* error: null}; "throw" is the call rejecting instead of answering.
ReadResults == {"ok", "null", "err", "throw"}
WriteResults == {"ok", "err", "throw"}
AuthResults == {"true", "false", "throw"}
SignOutResults == {"ok", "err", "throw"}

NoUpd == [f \in {} |-> ""]
NoId == "-"

VARIABLES
    mounted,        \* the page is mounted
    epoch,          \* the number of the component instance (mounts so far)
    items,          \* useState: the displayed collection
    loading,        \* useState: the loading flag
    selectedItem,   \* useState: {} for null, {item} otherwise
    isEditing,      \* useState: the edit modal is open
    devFlag,        \* localStorage dev_admin_authenticated = 'true'
    db,             \* the backend's menu_items table
    subs,           \* the instances whose channel subscription is live
    calls,          \* the backend calls in flight (a bag)
    ops,            \* the operations started so far
    committed,      \* the updates the backend applied for the page: <<id, updates>>
    removed,        \* the ids the backend deleted for the page
    out             \* what the last step showed to the user and started, in order

vars == <<mounted, epoch, items, loading, selectedItem, isEditing, devFlag,
          db, subs, calls, ops, committed, removed, out>>

(* ------------------------------ helpers -------------------------------- *)

IdsOf(rows) == {rows[i].id : i \in DOMAIN rows}

\* {...item, ...updates}
Merge(item, upd) ==
    [f \in DOMAIN item |-> IF f \in DOMAIN upd THEN upd[f] ELSE item[f]]

\* items.map(item => item.id === id ? {...item, ...updates} : item)
MapUpdate(rows, id, upd) ==
    [i \in DOMAIN rows |-> IF rows[i].id = id THEN Merge(rows[i], upd) ELSE rows[i]]

\* items.filter(item => item.id !== id)
FilterOut(rows, id) == SelectSeq(rows, LAMBDA r : r.id # id)

\* the backend's update(updates).eq('id', id) and delete().eq('id', id)
TableUpdate(rows, id, upd) ==
    [i \in DOMAIN rows |-> IF rows[i].id = id THEN Merge(rows[i], upd) ELSE rows[i]]
TableDelete(rows, id) == SelectSeq(rows, LAMBDA r : r.id # id)

\* the rows have pairwise distinct ids: id is the key of menu_items
Unique(rows) == Cardinality(IdsOf(rows)) = Len(rows)

\* a backend call in flight: the handler that made it (kind), the component
\* instance it belongs to, whether the backend has served it and how, the
\* rows a read returned, the handler's arguments, the `items` the handler
\* closed over, and for a load who started it
Call(kind, inst, origin, id, upd, closure) ==
    [kind |-> kind, inst |-> inst, st |-> "sent", res |-> "-", data |-> << >>,
     origin |-> origin, id |-> id, upd |-> upd, closure |-> closure]

NoCall == Call("none", 0, "-", NoId, NoUpd, << >>)

Has(c) == BagIn(c, calls)
Add(bag, c) == bag (+) SetToBag({c})
Remove(bag, c) == bag (-) SetToBag({c})
Calls == BagToSet(calls)

\* the state setters of an instance act only while that instance is mounted
Live(inst) == mounted /\ inst = epoch

(* ------------------------------- Init ---------------------------------- *)

\* the calls of the mount effect: checkAuth() and fetchMenuItems()
MountCalls(inst) ==
    SetToBag({Call("checkAuth", inst, "mount", NoId, NoUpd, << >>),
              Call("fetch", inst, "mount", NoId, NoUpd, << >>)})

\* the page as the router first opens it: the initial useState values, and
\* the mount effect has run
Init ==
    /\ mounted = TRUE
    /\ epoch = 1
    /\ items = << >>
    /\ loading = TRUE
    /\ selectedItem = {}
    /\ isEditing = FALSE
    /\ devFlag \in BOOLEAN
    /\ db \in InitDBs
    /\ subs = {1}
    /\ calls = MountCalls(1)
    /\ ops = 0
    /\ committed = {}
    /\ removed = {}
    /\ out = <<"checkAuth", "fetch", "subscribe">>

(* --------------------- fetchMenuItems: the loader ---------------------- *)

\* the synchronous head of fetchMenuItems: setLoading(true), then the read
\* is sent.  The loader is started by the mount effect, by the channel
\* callback and by the update and delete handlers, never on its own.
LoadCall(inst, origin, id, upd) == Call("fetch", inst, origin, id, upd, << >>)

\* the backend serves a call: it answers res (and, for a read, data)
Served(c, res, data) == [c EXCEPT !.st = "served", !.res = res, !.data = data]

\* the backend serves the read select('*') of a load
FetchServe(c, results) ==
    /\ Has(c)
    /\ c.kind = "fetch"
    /\ c.st = "sent"
    /\ \E res \in results :
          calls' = Add(Remove(calls, c), Served(c, res, IF res = "ok" THEN db ELSE << >>))
    /\ out' = << >>
    /\ UNCHANGED <<mounted, epoch, items, loading, selectedItem, isEditing,
                   devFlag, db, subs, ops, committed, removed>>

\* a loader that keeps only one category of the returned rows
LoadedItemsFiltered(res, data) ==
    IF res = "null" THEN << >> ELSE SelectSeq(data, LAMBDA r : r.category = "mainDish")

\* setItems(data || [])
LoadedItems(res, data) == IF res = "null" THEN << >> ELSE data

\* if (error): the sample dataset under the development flag
ErrorItems(dev, cur) == IF dev THEN mockData ELSE cur

\* catch: setItems([ /* mock data would go here */ ]) under the flag
CatchItems(dev, cur) == IF dev THEN << >> ELSE cur

\* the collection fetchMenuItems leaves after a response
FetchItems(res, data, dev, cur) ==
    CASE res = "err" -> ErrorItems(dev, cur)
      [] res = "throw" -> CatchItems(dev, cur)
      [] OTHER -> LoadedItems(res, data)

\* the toasts fetchMenuItems shows after a response
FetchToasts(res, dev) ==
    CASE res = "err" -> IF dev THEN <<"toast.devMode">> ELSE << >>
      [] res = "throw" -> <<"toast.loadError">>
      [] OTHER -> << >>

\* the rest of fetchMenuItems, run when the response arrives
FetchDone(c) ==
    /\ Has(c)
    /\ c.kind = "fetch"
    /\ c.st = "served"
    /\ items' = IF Live(c.inst) THEN FetchItems(c.res, c.data, devFlag, items) ELSE items
    /\ loading' = IF Live(c.inst) THEN FALSE ELSE loading
    /\ out' = FetchToasts(c.res, devFlag)
    /\ calls' = Remove(calls, c)
    /\ UNCHANGED <<mounted, epoch, selectedItem, isEditing, devFlag, db, subs, ops, committed, removed>>

(* ------------------------- mount and unmount --------------------------- *)

\* an effect that returns no cleanup: the subscription stays
CleanupMissing(s, inst) == s

\* the cleanup of the effect: supabase.removeChannel(subscription)
Cleanup(s, inst) == s \ {inst}

\* the page is opened again: a new instance with the initial useState
\* values, and useEffect(..., []) runs checkAuth(), fetchMenuItems() and
\* subscribes to the channel
Mount ==
    /\ ~mounted
    /\ ops < MaxOps
    /\ ops' = ops + 1
    /\ mounted' = TRUE
    /\ epoch' = epoch + 1
    /\ items' = << >>
    /\ loading' = TRUE
    /\ selectedItem' = {}
    /\ isEditing' = FALSE
    /\ subs' = subs \cup {epoch + 1}
    /\ calls' = calls (+) MountCalls(epoch + 1)
    /\ out' = <<"checkAuth", "fetch", "subscribe">>
    /\ UNCHANGED <<committed, removed, devFlag, db>>

\* the page is left: the instance is unmounted and the effect's cleanup runs
Unmount ==
    /\ mounted
    /\ ops < MaxOps
    /\ ops' = ops + 1
    /\ mounted' = FALSE
    /\ subs' = Cleanup(subs, epoch)
    /\ out' = <<"removeChannel">>
    /\ UNCHANGED <<committed, removed, epoch, items, loading, selectedItem, isEditing, devFlag,
                   db, calls>>

(* ------------------------ the change subscriber ------------------------ *)

\* a callback that starts no load while one is shown as loading
CallbackSkipsWhileLoading(ld) == ~ld

\* the callback of the subscription: console.log(payload); fetchMenuItems(),
\* whatever the payload and the loading flag
CallbackLoads(ld) == TRUE

\* the backend sends a change event of menu_items: the callback of a live
\* subscription runs fetchMenuItems(); without a subscription the client
\* has no callback to run
ChannelEvent ==
    /\ ops < MaxOps
    /\ ops' = ops + 1
    /\ IF subs = {}
         THEN /\ out' = <<"event.dropped">>
              /\ UNCHANGED <<loading, calls>>
         ELSE \E s \in subs :
                IF CallbackLoads(loading)
                  THEN /\ calls' = Add(calls, LoadCall(s, "channel", NoId, NoUpd))
                       /\ loading' = IF Live(s) THEN TRUE ELSE loading
                       /\ out' = <<"fetch">>
                  ELSE /\ out' = << >>
                       /\ UNCHANGED <<loading, calls>>
    /\ UNCHANGED <<committed, removed, mounted, epoch, items, selectedItem, isEditing, devFlag,
                   db, subs>>

\* another client of the backend inserts a row
ExternalInsert(r) ==
    /\ ops < MaxOps
    /\ r.id \notin IdsOf(db)
    /\ ops' = ops + 1
    /\ db' = Append(db, r)
    /\ removed' = removed \ {r.id}
    /\ out' = << >>
    /\ UNCHANGED <<mounted, epoch, items, loading, selectedItem, isEditing,
                   devFlag, subs, calls, committed>>

(* ---------------------- checkAuth: the session guard ------------------- *)

\* a guard whose catch block navigates without reading the development flag
CheckAuthCatchIgnoresFlag(res, dev) ==
    IF res = "throw" THEN TRUE ELSE res # "true" /\ ~dev

\* whether checkAuth navigates to /admin: the try path tests
\* !authenticated && !devAuthenticated, the catch path !devAuthenticated
CheckAuthNavigates(res, dev) ==
    IF res = "throw" THEN ~dev ELSE res # "true" /\ ~dev

\* what checkAuth shows: the navigation, after the toast on the try path
CheckAuthOut(res, dev) ==
    IF CheckAuthNavigates(res, dev)
      THEN IF res = "throw" THEN <<"nav./admin">>
                            ELSE <<"toast.invalidSession", "nav./admin">>
      ELSE << >>

\* the rest of checkAuth, run when isAuthenticated() settles with res
CheckAuthDone(c, res) ==
    /\ Has(c)
    /\ c.kind = "checkAuth"
    /\ out' = CheckAuthOut(res, devFlag)
    /\ calls' = Remove(calls, c)
    /\ UNCHANGED <<mounted, epoch, items, loading, selectedItem, isEditing,
                   devFlag, db, subs, ops, committed, removed>>

(* --------------------------- handleUpdateItem -------------------------- *)

\* handleUpdateItem(id, updates) up to its await: setLoading(true) and the
\* update is sent; the handler closes over the items of its render
UpdateStart(id, upd) ==
    /\ mounted
    /\ ops < MaxOps
    /\ ops' = ops + 1
    /\ loading' = TRUE
    /\ calls' = Add(calls, Call("update", epoch, "user", id, upd, items))
    /\ out' = << >>
    /\ UNCHANGED <<committed, removed, mounted, epoch, items, selectedItem, isEditing, devFlag,
                   db, subs>>

\* a handler that treats every returned error as a simulated success
WriteThrowsOnRejectOnly(res, dev) == res = "throw"

\* the handler leaves its try block by a throw: the call threw, or it
\* returned an error without the development flag (throw error)
WriteThrows(res, dev) == IF res = "err" THEN ~dev ELSE res = "throw"

\* the collection after the error branch of handleUpdateItem
UpdateItems(res, dev, closure, id, upd, cur) ==
    IF res = "err" /\ dev THEN MapUpdate(closure, id, upd) ELSE cur

\* a handler that closes the modal before it shows the toast and reloads
UpdateOutModalFirst(res) ==
    (IF res = "err" THEN <<"setItems">> ELSE << >>)
        \o <<"closeModal", "toast.updateOk", "fetch">>

\* what handleUpdateItem does when its try block does not throw, in order:
\* the local update of the error branch, the success toast,
\* fetchMenuItems(), setIsEditing(false) and setSelectedItem(null)
UpdateOut(res) ==
    (IF res = "err" THEN <<"setItems">> ELSE << >>)
        \o <<"toast.updateOk", "fetch", "closeModal">>

\* the backend serves update(updates).eq('id', id): it applies the update
\* when it answers ok, and the answer is on its way to the page; the backend
\* applies no update that would give two rows the same id
UpdateServe(c, res) ==
    /\ Has(c)
    /\ c.kind = "update"
    /\ c.st = "sent"
    /\ res = "ok" => Unique(TableUpdate(db, c.id, c.upd))
    /\ db' = IF res = "ok" THEN TableUpdate(db, c.id, c.upd) ELSE db
    /\ calls' = Add(Remove(calls, c), Served(c, res, << >>))
    /\ out' = << >>
    /\ UNCHANGED <<mounted, epoch, items, loading, selectedItem, isEditing,
                   devFlag, subs, ops, committed, removed>>

\* the rest of handleUpdateItem, run when the answer of the update arrives
UpdateDone(c) ==
    /\ Has(c)
    /\ c.kind = "update"
    /\ c.st = "served"
    /\ committed' = IF c.res = "ok" THEN committed \cup {<<c.id, c.upd>>} ELSE committed
    /\ IF WriteThrows(c.res, devFlag)
         THEN /\ out' = <<"toast.updateError">>
              /\ calls' = Remove(calls, c)
              /\ UNCHANGED <<items, selectedItem, isEditing>>
         ELSE /\ out' = UpdateOut(c.res)
              /\ calls' = Add(Remove(calls, c),
                              LoadCall(c.inst, IF c.res = "ok" THEN "update" ELSE "updateSim",
                                       c.id, c.upd))
              /\ items' = IF Live(c.inst)
                            THEN UpdateItems(c.res, devFlag, c.closure, c.id, c.upd, items)
                            ELSE items
              /\ isEditing' = IF Live(c.inst) THEN FALSE ELSE isEditing
              /\ selectedItem' = IF Live(c.inst) THEN {} ELSE selectedItem
    /\ loading' = IF Live(c.inst) THEN FALSE ELSE loading
    /\ UNCHANGED <<mounted, epoch, devFlag, db, subs, ops, removed>>

(* --------------------------- handleDeleteItem -------------------------- *)

\* a handler that does not test the answer of confirm()
ConfirmIgnored(answer) == TRUE

\* if (!confirm(...)) return
ConfirmProceeds(answer) == answer

\* handleDeleteItem(id) up to its await, from the Eliminar button of a
\* displayed card: the confirmation, setLoading(true), the delete is sent
DeleteClick(id, answer) ==
    /\ mounted
    /\ id \in IdsOf(items)
    /\ ops < MaxOps
    /\ ops' = ops + 1
    /\ IF ConfirmProceeds(answer)
         THEN /\ loading' = TRUE
              /\ calls' = Add(calls, Call("delete", epoch, "user", id, NoUpd, items))
         ELSE UNCHANGED <<loading, calls>>
    /\ out' = <<IF answer THEN "confirm.yes" ELSE "confirm.no">>
    /\ UNCHANGED <<committed, removed, mounted, epoch, items, selectedItem, isEditing, devFlag,
                   db, subs>>

\* the collection after the error branch of handleDeleteItem
DeleteItems(res, dev, closure, id, cur) ==
    IF res = "err" /\ dev THEN FilterOut(closure, id) ELSE cur

\* the backend serves delete().eq('id', id): it deletes the row when it
\* answers ok, and the answer is on its way to the page
DeleteServe(c, res) ==
    /\ Has(c)
    /\ c.kind = "delete"
    /\ c.st = "sent"
    /\ db' = IF res = "ok" THEN TableDelete(db, c.id) ELSE db
    /\ calls' = Add(Remove(calls, c), Served(c, res, << >>))
    /\ out' = << >>
    /\ UNCHANGED <<mounted, epoch, items, loading, selectedItem, isEditing,
                   devFlag, subs, ops, committed, removed>>

\* the rest of handleDeleteItem, run when the answer of the delete arrives
DeleteDone(c) ==
    /\ Has(c)
    /\ c.kind = "delete"
    /\ c.st = "served"
    /\ removed' = IF c.res = "ok" THEN removed \cup {c.id} ELSE removed
    /\ IF WriteThrows(c.res, devFlag)
         THEN /\ out' = <<"toast.deleteError">>
              /\ calls' = Remove(calls, c)
              /\ UNCHANGED items
         ELSE /\ out' = (IF c.res = "err" THEN <<"setItems">> ELSE << >>)
                         \o <<"toast.deleteOk", "fetch">>
              /\ calls' = Add(Remove(calls, c),
                              LoadCall(c.inst, IF c.res = "ok" THEN "delete" ELSE "deleteSim",
                                       c.id, NoUpd))
              /\ items' = IF Live(c.inst)
                            THEN DeleteItems(c.res, devFlag, c.closure, c.id, items)
                            ELSE items
    /\ loading' = IF Live(c.inst) THEN FALSE ELSE loading
    /\ UNCHANGED <<mounted, epoch, selectedItem, isEditing, devFlag, db, subs, ops,
                   committed>>

(* -------------------------------- signOut ------------------------------ *)

\* the page (header, cards, modal) is rendered unless the spinner is
HeaderShown == ~(loading /\ Len(items) = 0)

\* signOut up to its await: the backend sign-out is sent
SignOutStart ==
    /\ mounted
    /\ HeaderShown
    /\ ops < MaxOps
    /\ ops' = ops + 1
    /\ calls' = Add(calls, Call("signOut", epoch, "user", NoId, NoUpd, << >>))
    /\ out' = << >>
    /\ UNCHANGED <<committed, removed, mounted, epoch, items, loading, selectedItem, isEditing,
                   devFlag, db, subs>>

\* a signOut whose catch block does not clear the flag
SignOutClearsOnSuccessOnly(res) == res = "ok"

\* localStorage.removeItem('dev_admin_authenticated') is reached on the
\* success path and in the catch block
SignOutClears(res) == IF res = "ok" THEN TRUE ELSE TRUE

\* what signOut does after the backend answered, in order
SignOutOut(res) ==
    (IF SignOutClears(res) THEN <<"removeItem">> ELSE << >>)
        \o <<"toast.sessionClosed", "nav./admin">>

\* the rest of signOut, run when supabase.auth.signOut() settles with res
SignOutDone(c, res) ==
    /\ Has(c)
    /\ c.kind = "signOut"
    /\ devFlag' = IF SignOutClears(res) THEN FALSE ELSE devFlag
    /\ out' = SignOutOut(res)
    /\ calls' = Remove(calls, c)
    /\ UNCHANGED <<mounted, epoch, items, loading, selectedItem, isEditing,
                   db, subs, ops, committed, removed>>

(* --------------------------- Añadir Elemento --------------------------- *)

\* the button of the header: the toast "Próximamente", nothing else
AddClick ==
    /\ mounted
    /\ HeaderShown
    /\ ops < MaxOps
    /\ ops' = ops + 1
    /\ out' = <<"toast.comingSoon">>
    /\ UNCHANGED <<committed, removed, mounted, epoch, items, loading, selectedItem,
                   isEditing, devFlag, db, subs, calls>>

(* ------------------------------ edit modal ----------------------------- *)

\* the Editar button of a card: setSelectedItem(item); setIsEditing(true)
EditClick(i) ==
    /\ mounted
    /\ i \in DOMAIN items
    /\ ops < MaxOps
    /\ ops' = ops + 1
    /\ selectedItem' = {items[i]}
    /\ isEditing' = TRUE
    /\ out' = << >>
    /\ UNCHANGED <<committed, removed, mounted, epoch, items, loading, devFlag, db, subs, calls>>

\* Cancelar and Guardar of the modal: setIsEditing(false); setSelectedItem(null)
CloseModal ==
    /\ mounted
    /\ HeaderShown
    /\ isEditing
    /\ selectedItem # {}
    /\ ops < MaxOps
    /\ ops' = ops + 1
    /\ isEditing' = FALSE
    /\ selectedItem' = {}
    /\ out' = << >>
    /\ UNCHANGED <<committed, removed, mounted, epoch, items, loading, devFlag, db, subs, calls>>

(* --------------------------- specifications ---------------------------- *)

\* the page as its user and the backend drive it.  No element of the page
\* calls handleUpdateItem (Guardar only closes the modal), so no behaviour
\* of Spec has an update.
Next ==
    \/ Mount
    \/ Unmount
    \/ \E c \in Calls : FetchServe(c, ReadResults)
    \/ \E c \in Calls : FetchDone(c)
    \/ ChannelEvent
    \/ \E r \in ExternalRows : ExternalInsert(r)
    \/ \E c \in Calls, res \in AuthResults : CheckAuthDone(c, res)
    \/ \E id \in Ids, answer \in BOOLEAN : DeleteClick(id, answer)
    \/ \E c \in Calls, res \in WriteResults : DeleteServe(c, res)
    \/ \E c \in Calls : DeleteDone(c)
    \/ SignOutStart
    \/ \E c \in Calls, res \in SignOutResults : SignOutDone(c, res)
    \/ AddClick
    \/ \E i \in 1..2 : EditClick(i)
    \/ CloseModal

Spec == Init /\ [][Next]_vars

\* the page, and handleUpdateItem(id, updates) called on the mounted
\* component
NextCalls ==
    \/ Mount
    \/ Unmount
    \/ \E c \in Calls : FetchServe(c, ReadResults)
    \/ \E c \in Calls : FetchDone(c)
    \/ ChannelEvent
    \/ \E r \in ExternalRows : ExternalInsert(r)
    \/ \E c \in Calls, res \in AuthResults : CheckAuthDone(c, res)
    \/ \E id \in UpdateIds, upd \in Updates : UpdateStart(id, upd)
    \/ \E c \in Calls, res \in WriteResults : UpdateServe(c, res)
    \/ \E c \in Calls : UpdateDone(c)
    \/ \E id \in Ids, answer \in BOOLEAN : DeleteClick(id, answer)
    \/ \E c \in Calls, res \in WriteResults : DeleteServe(c, res)
    \/ \E c \in Calls : DeleteDone(c)
    \/ SignOutStart
    \/ \E c \in Calls, res \in SignOutResults : SignOutDone(c, res)
    \/ AddClick
    \/ \E i \in 1..2 : EditClick(i)
    \/ CloseModal

SpecCalls == Init /\ [][NextCalls]_vars

\* the behaviours of Spec in which every backend read succeeds with the
\* table's rows and the page is the table's only writer
NextOk ==
    \/ Mount
    \/ Unmount
    \/ \E c \in Calls : FetchServe(c, {"ok"})
    \/ \E c \in Calls : FetchDone(c)
    \/ ChannelEvent
    \/ \E c \in Calls, res \in AuthResults : CheckAuthDone(c, res)
    \/ \E id \in Ids, answer \in BOOLEAN : DeleteClick(id, answer)
    \/ \E c \in Calls, res \in WriteResults : DeleteServe(c, res)
    \/ \E c \in Calls : DeleteDone(c)
    \/ SignOutStart
    \/ \E c \in Calls, res \in SignOutResults : SignOutDone(c, res)
    \/ AddClick
    \/ \E i \in 1..2 : EditClick(i)
    \/ CloseModal

SpecOk == Init /\ [][NextOk]_vars

\* the behaviours of SpecCalls in which every backend read succeeds with
\* the table's rows and the page is the table's only writer
NextOkCalls ==
    \/ Mount
    \/ Unmount
    \/ \E c \in Calls : FetchServe(c, {"ok"})
    \/ \E c \in Calls : FetchDone(c)
    \/ ChannelEvent
    \/ \E c \in Calls, res \in AuthResults : CheckAuthDone(c, res)
    \/ \E id \in UpdateIds, upd \in Updates : UpdateStart(id, upd)
    \/ \E c \in Calls, res \in WriteResults : UpdateServe(c, res)
    \/ \E c \in Calls : UpdateDone(c)
    \/ \E id \in Ids, answer \in BOOLEAN : DeleteClick(id, answer)
    \/ \E c \in Calls, res \in WriteResults : DeleteServe(c, res)
    \/ \E c \in Calls : DeleteDone(c)
    \/ SignOutStart
    \/ \E c \in Calls, res \in SignOutResults : SignOutDone(c, res)
    \/ AddClick
    \/ \E i \in 1..2 : EditClick(i)
    \/ CloseModal

SpecOkCalls == Init /\ [][NextOkCalls]_vars

\* the behaviours in which handleUpdateItem is also called with a change of
\* the id field
NextKeys ==
    \/ Mount
    \/ Unmount
    \/ \E c \in Calls : FetchServe(c, ReadResults)
    \/ \E c \in Calls : FetchDone(c)
    \/ ChannelEvent
    \/ \E r \in ExternalRows : ExternalInsert(r)
    \/ \E c \in Calls, res \in AuthResults : CheckAuthDone(c, res)
    \/ \E id \in UpdateIds, upd \in Updates \cup KeyUpdates : UpdateStart(id, upd)
    \/ \E c \in Calls, res \in WriteResults : UpdateServe(c, res)
    \/ \E c \in Calls : UpdateDone(c)
    \/ \E id \in Ids, answer \in BOOLEAN : DeleteClick(id, answer)
    \/ \E c \in Calls, res \in WriteResults : DeleteServe(c, res)
    \/ \E c \in Calls : DeleteDone(c)
    \/ SignOutStart
    \/ \E c \in Calls, res \in SignOutResults : SignOutDone(c, res)
    \/ AddClick
    \/ \E i \in 1..2 : EditClick(i)
    \/ CloseModal

SpecKeys == Init /\ [][NextKeys]_vars

(* ------------------------------- claims -------------------------------- *)

Range(seq) == {seq[i] : i \in DOMAIN seq}

\* the toasts of variant "destructive"
ErrorToasts == {"toast.invalidSession", "toast.loadError", "toast.updateError",
                "toast.deleteError"}
Toasts == ErrorToasts \cup {"toast.devMode", "toast.updateOk", "toast.deleteOk",
                            "toast.sessionClosed", "toast.comingSoon"}

\* seq shows a before b
Before(seq, a, b) ==
    \E i, j \in DOMAIN seq : i < j /\ seq[i] = a /\ seq[j] = b

\* the displayed record(s) with this id carry every field of the partial change
Carries(rows, id, upd) ==
    \A i \in DOMAIN rows :
        rows[i].id = id => \A f \in DOMAIN upd : rows[i][f] = upd[f]

\* no load of the mounted instance is in flight
LoadsSettled ==
    mounted /\ \A c \in Calls : c.kind = "fetch" => c.inst # epoch

\* C1: when the response of a successful read is applied, the displayed
\* collection is exactly the rows that read returned, in their order; a null
\* result gives the empty collection.
C1_LoadShowsReturnedRows ==
    [][\A c \in Calls :
          (FetchDone(c) /\ c.res \in {"ok", "null"} /\ Live(c.inst))
              => items' = (IF c.res = "ok" THEN c.data ELSE << >>)]_vars

\* a successful load has shown the backend's rows, in the backend's order
C1_Witness ==
    /\ mounted
    /\ ~loading
    /\ items = <<Row2, Row1>>
    /\ items = db

\* C2: when a read fails (error returned, or the call throws) while the
\* development flag is set, the displayed collection after that load is the
\* sample dataset.
C2_FailedLoadShowsSample ==
    [][\A c \in Calls :
          (FetchDone(c) /\ c.res \in {"err", "throw"} /\ devFlag /\ Live(c.inst))
              => items' = mockData]_vars

\* C3: when a read fails while the development flag is not set, the displayed
\* collection is left as it was and an error toast is shown.
C3_FailedLoadKeepsItemsAndToasts ==
    [][\A c \in Calls :
          (FetchDone(c) /\ c.res \in {"err", "throw"} /\ ~devFlag /\ Live(c.inst))
              => /\ items' = items
                 /\ Range(out') \cap ErrorToasts # {}]_vars

\* C4: after handleUpdateItem fell back to the local update (backend error,
\* development flag set), once the load the handler started has completed
\* the displayed record with that id carries the updated fields.
C4_SimulatedUpdateStays ==
    [][\A c \in Calls :
          (FetchDone(c) /\ c.origin = "updateSim" /\ Live(c.inst)
             /\ c.id \in IdsOf(items) /\ Carries(items, c.id, c.upd))
              => /\ c.id \in IdsOf(items')
                 /\ Carries(items', c.id, c.upd)]_vars

\* C5: after a successful backend update by the page, once the loads in
\* flight have completed (reads succeeding, the row still as updated), the
\* displayed record with that id carries the updated fields.
C5_UpdateReflectedOnceSettled ==
    \A w \in committed :
        (LoadsSettled /\ w[1] \in IdsOf(db) /\ Carries(db, w[1], w[2]))
            => Carries(items, w[1], w[2])

\* C6: a declined confirmation makes handleDeleteItem a no-op: no backend
\* call, no load, no toast, and the collection, the loading flag and the
\* modal state stay as they are.
C6_DeclinedDeleteIsNoOp ==
    [][\A id \in Ids :
          DeleteClick(id, FALSE)
              => /\ UNCHANGED <<items, loading, selectedItem, isEditing, calls,
                                db, devFlag, subs>>
                 /\ Range(out') \cap (Toasts \cup {"fetch"}) = {}]_vars

\* the confirmation was declined while a card was displayed
C6_Witness ==
    /\ mounted
    /\ out = <<"confirm.no">>
    /\ items # << >>

\* C7: after a confirmed delete that the backend applied, once the loads in
\* flight have completed (reads succeeding, the row not inserted again), the
\* displayed collection has no record with that id.
C7_DeleteReflectedOnceSettled ==
    \A id \in removed :
        (LoadsSettled /\ id \notin IdsOf(db)) => id \notin IdsOf(items)

\* C8: every signOut that returns has cleared the development flag, shown
\* the session-closed toast and then navigated to /admin, whatever the
\* backend sign-out did, and shows no error toast.
C8_SignOutAlwaysClearsAndRedirects ==
    [][\A c \in Calls, res \in SignOutResults :
          SignOutDone(c, res)
              => /\ ~devFlag'
                 /\ "removeItem" \in Range(out')
                 /\ Before(out', "toast.sessionClosed", "nav./admin")
                 /\ Range(out') \cap ErrorToasts = {}]_vars

\* a sign-out has cleared the flag and redirected
C8_Witness ==
    /\ out = <<"removeItem", "toast.sessionClosed", "nav./admin">>
    /\ ~devFlag

\* C9: a mounted page holds exactly one channel subscription, its own, and
\* an unmounted one none; an event sent after the teardown starts no load.
C9_OneSubscriptionReleasedOnUnmount ==
    /\ [](subs = IF mounted THEN {epoch} ELSE {})
    /\ [][(ChannelEvent /\ ~mounted) => calls' = calls]_vars

\* an event was sent after the teardown and found no subscription
C9_Witness ==
    /\ ~mounted
    /\ subs = {}
    /\ out = <<"event.dropped">>

\* the checkAuth calls in flight
AuthCalls(bag) ==
    BagCardinality([c \in {x \in DOMAIN bag : x.kind = "checkAuth"} |-> bag[c]])

\* C10: checkAuth is called once per mount, by the mount effect only, and it
\* navigates to /admin exactly when isAuthenticated() did not answer true
\* (false, or it threw) and the development flag is not set.
C10_GuardNavigatesIffUnauthorized ==
    /\ [][\A c \in Calls, res \in AuthResults :
            CheckAuthDone(c, res)
                => ("nav./admin" \in Range(out') <=> (res # "true" /\ ~devFlag))]_vars
    /\ [][AuthCalls(calls') > AuthCalls(calls)
            => (Mount /\ AuthCalls(calls') = AuthCalls(calls) + 1)]_vars

\* the guard found neither a session nor the flag, and navigated
C10_Witness ==
    /\ out = <<"toast.invalidSession", "nav./admin">>
    /\ ~devFlag

\* the loads in flight
FetchCalls(bag) ==
    BagCardinality([c \in {x \in DOMAIN bag : x.kind = "fetch"} |-> bag[c]])

\* C11: while the page is mounted, every change event sent on the channel
\* starts exactly one run of the loader, whatever the loading flag and the
\* loads already in flight, and leaves the displayed collection as it is
\* (the payload is not applied).
C11_EventStartsOneLoad ==
    [][(ChannelEvent /\ mounted)
          => /\ calls' = Add(calls, LoadCall(epoch, "channel", NoId, NoUpd))
             /\ FetchCalls(calls') = FetchCalls(calls) + 1
             /\ loading'
             /\ items' = items]_vars

\* an event started a load while another load was in flight and the
\* collection was displayed
C11_Witness ==
    /\ mounted
    /\ out = <<"fetch">>
    /\ items # << >>
    /\ \E c \in Calls : c.kind = "fetch" /\ c.origin = "channel" /\ c.inst = epoch
    /\ FetchCalls(calls) >= 2

\* C12: after a confirmed handleDeleteItem fell back to the local removal
\* (backend error, development flag set), once the load the handler started
\* has completed the displayed collection has no record with that id.
C12_SimulatedDeleteStays ==
    [][\A c \in Calls :
          (FetchDone(c) /\ c.origin = "deleteSim" /\ Live(c.inst)
             /\ c.id \notin IdsOf(items))
              => c.id \notin IdsOf(items')]_vars

\* C13: on every path of handleUpdateItem that does not throw (the backend
\* applied the update, or it returned an error under the development flag)
\* the handler shows the success toast, then starts one load, then closes
\* the edit modal of its instance.
C13_UpdateToastLoadClose ==
    [][\A c \in Calls, res \in WriteResults :
          (UpdateDone(c) /\ c.res = res /\ ~WriteThrows(res, devFlag))
              => /\ Before(out', "toast.updateOk", "fetch")
                 /\ Before(out', "fetch", "closeModal")
                 /\ Range(out') \cap ErrorToasts = {}
                 /\ FetchCalls(calls') = FetchCalls(calls) + 1
                 /\ Live(c.inst) => (~isEditing' /\ selectedItem' = {})]_vars

\* a simulated update has shown the toast, started its load and closed the
\* modal
C13_Witness ==
    /\ mounted
    /\ out = <<"setItems", "toast.updateOk", "fetch", "closeModal">>
    /\ ~isEditing
    /\ selectedItem = {}
    /\ \E c \in Calls : c.kind = "fetch" /\ c.origin = "updateSim"

\* C14: when the backend update or delete fails (error returned, or the call
\* throws) while the development flag is not set, the handler shows its
\* error toast and nothing else: no success toast, no load started, and the
\* displayed collection and the modal state are left as they are.
C14_FailedWriteOnlyToasts ==
    [][\A c \in Calls, res \in {"err", "throw"} :
          ((UpdateDone(c) \/ DeleteDone(c)) /\ c.res = res /\ ~devFlag)
              => /\ Range(out') \cap Toasts \in {{"toast.updateError"}, {"toast.deleteError"}}
                 /\ "fetch" \notin Range(out')
                 /\ calls' = Remove(calls, c)
                 /\ UNCHANGED <<items, isEditing, selectedItem, db>>]_vars

\* an update failed without the flag while the modal was open: the error
\* toast is shown, the modal is still open and the cards are displayed
C14_Witness ==
    /\ mounted
    /\ ~devFlag
    /\ out = <<"toast.updateError">>
    /\ isEditing
    /\ selectedItem # {}
    /\ items # << >>

\* C15: in every state in which a load of the mounted instance is in flight
\* (started, its response not yet handled), the loading flag is true.
C15_LoadingWhileLoadInFlight ==
    (\E c \in Calls : c.kind = "fetch" /\ Live(c.inst)) => loading

\* no write applied by the backend is still waiting for its handler
WritesAnswered ==
    \A c \in Calls : c.kind \in {"update", "delete"} => c.st = "sent"

\* C16: with every backend read succeeding and the page the table's only
\* writer, whenever no load of the mounted instance is in flight and no
\* answer of a write is on its way, the displayed collection is the
\* backend's current rows.
C16_SettledShowsBackend ==
    (LoadsSettled /\ WritesAnswered) => items = db

\* the displayed records whose id is not this one
Others(rows, id) == {rows[i] : i \in {j \in DOMAIN rows : rows[j].id # id}}

\* C17: when handleUpdateItem or handleDeleteItem falls back to the local
\* update or removal (backend error, development flag set), the records with
\* another id displayed right after the step are the ones displayed right
\* before it.
C17_LocalMutationKeepsOthers ==
    [][\A c \in Calls :
          ((UpdateDone(c) \/ DeleteDone(c)) /\ c.res = "err" /\ devFlag /\ Live(c.inst))
              => Others(items', c.id) = Others(items, c.id)]_vars

\* C18: when the guard of an instance finds neither a backend session nor
\* the development flag, that instance has started no table read, holds no
\* channel subscription and displays no rows.
C18_UnauthorizedLoadsNothing ==
    [][\A c \in Calls, res \in AuthResults :
          (CheckAuthDone(c, res) /\ res # "true" /\ ~devFlag)
              => /\ ~\E f \in Calls : f.kind = "fetch" /\ f.inst = c.inst
                 /\ c.inst \notin subs
                 /\ Live(c.inst) => items = << >>]_vars

\* C19: in every reachable state no two displayed records have the same id,
\* the backend's rows having pairwise distinct ids throughout.
C19_DisplayedIdsUnique ==
    Unique(db) => Unique(items)

====
